---- MODULE Spec2Model ----
(***************************************************************************)
(* Model of scripts/update_trails.py: the catalog merge engine             *)
(* (upsert_file, build_trail_object), the catalog write (save_root) and    *)
(* the multi-track splitter (split_multi_track_gpx).                       *)
(*                                                                         *)
(* Representation of the program's values:                                 *)
(*   - a Python dict / JSON object is a sequence of <<key, value>> pairs   *)
(*     in insertion order (Python dicts keep insertion order, json.dump    *)
(*     writes keys in that order);                                         *)
(*   - a list is a sequence;                                               *)
(*   - a date is the string today_yyyy_mm_dd() produces;                   *)
(*   - coordinates are integers in units of 0.001 degree, elevations are   *)
(*     integers in metres; None is the value None below.                   *)
(***************************************************************************)
EXTENDS Integers, Sequences, FiniteSets, TLC

VARIABLES
    disk,           \* the catalog file json_path on disk
    files,          \* the track-log files under gpx_dir: slot -> document (or NoFile)
    today,          \* the current day (clock read by today_yyyy_mm_dd)
    is_unverified,  \* upsert_file's mode for this catalog
    pc,             \* where the process is
    existing_root,  \* upsert_file's local: the document load_root returned
    new_root,       \* upsert_file's local: the root handed to save_root
    rerun,          \* this run follows a completed run with nothing changed between
    clean,          \* the catalog on disk is a completed run's output and no file changed since
    runs,           \* completed or attempted runs so far
    sp_dir,         \* splitter: the names present in the directory of the file
    sp_pc,          \* splitter: where split_multi_track_gpx is
    sp_idx,         \* splitter: index of the next element to process
    sp_created,     \* splitter: created_files
    sp_input,       \* splitter: the parsed document of gpx_path
    call,           \* a function called on its own: its name and arguments
    ret             \* what that call returned (NotReturned before it has)

vars == <<disk, files, today, is_unverified, pc, existing_root, new_root, rerun,
          clean, runs, sp_dir, sp_pc, sp_idx, sp_created, sp_input, call, ret>>

mergeVars == <<disk, files, today, is_unverified, pc, existing_root, new_root,
               rerun, clean, runs>>
splitVars == <<sp_dir, sp_pc, sp_idx, sp_created, sp_input>>
callVars == <<call, ret>>

-----------------------------------------------------------------------------
(* Bounds of the model *)

MaxTrails == 2      \* longest trails list of an initial catalog
MaxDay == 3         \* last day the clock reaches
MaxRuns == 2        \* runs of upsert_file in one behaviour
MaxElems == 3       \* most track and route elements in a file given to the splitter
MaxPoints == 3      \* most points of a sequence given to calculate_elevation_stats

-----------------------------------------------------------------------------
(* Program constants *)

LANGS == <<"ru", "ro", "uk", "en">>
DIFFICULTIES == <<"green", "blue", "red", "black">>

\* COUNTRY_FOLDERS, in the dict's insertion order: <<folder name, countryId>>
COUNTRY_FOLDERS ==
    << <<"gpx_romania", "ro">>, <<"gpx_germany", "de">>, <<"gpx_poland", "pl">> >>

\* Python's None (a missing attribute, a missing <ele>, JSON null in a number's place)
None == 0 - 1

\* sentinel string upsert_file puts in place of updatedAt before comparing
X == "X"

raw_base == "https://raw"

-----------------------------------------------------------------------------
(* Sequences *)

Range(s) == {s[i] : i \in DOMAIN s}

RECURSIVE SeqsUpTo(_, _)
SeqsUpTo(S, n) ==
    IF n = 0 THEN {<<>>}
    ELSE LET shorter == SeqsUpTo(S, n - 1)
         IN  shorter \cup {Append(s, x) : s \in {t \in shorter : Len(t) = n - 1}, x \in S}

Abs(n) == IF n < 0 THEN 0 - n ELSE n

-----------------------------------------------------------------------------
(* Python dicts: sequences of <<key, value>> in insertion order *)

Keys(d) == {d[i][1] : i \in DOMAIN d}
Has(d, k) == \E i \in DOMAIN d : d[i][1] = k
IndexOf(d, k) == CHOOSE i \in DOMAIN d : d[i][1] = k
\* d[k]
At(d, k) == d[IndexOf(d, k)][2]
\* d.get(k, default)
Get(d, k, default) == IF Has(d, k) THEN At(d, k) ELSE default
\* d[k] = v: an existing key keeps its position, a new key goes last
Put(d, k, v) ==
    IF Has(d, k) THEN [d EXCEPT ![IndexOf(d, k)] = <<k, v>>] ELSE Append(d, <<k, v>>)
\* d.values()
Values(d) == [i \in DOMAIN d |-> d[i][2]]

\* every key of the model in the order json.dumps(sort_keys=True) puts them
KeyOrder ==
    << "cityId", "countryId", "de", "desc", "difficulty", "en", "gpxUrl", "id",
       "name", "note", "rating", "ro", "ru", "schema", "startLat", "startLon",
       "styles", "suitable", "trails", "uk", "updatedAt", "version" >>

\* the dict with its keys sorted
SortKeys(d) ==
    LET present == SelectSeq(KeyOrder, LAMBDA k : Has(d, k))
    IN  [i \in DOMAIN present |-> <<present[i], At(d, present[i])>>]

I18N_FIELDS == {"name", "suitable", "desc"}

\* json.dumps(record, sort_keys=True): nested language maps are sorted too
DumpsRecord(r) ==
    LET s == SortKeys(r)
    IN  [i \in DOMAIN s |->
            IF s[i][1] \in I18N_FIELDS THEN <<s[i][1], SortKeys(s[i][2])>> ELSE s[i]]

\* json.dumps(root object, sort_keys=True)
DumpsObject(kv) ==
    LET s == SortKeys(kv)
    IN  [i \in DOMAIN s |->
            IF s[i][1] = "trails"
            THEN <<"trails", [j \in DOMAIN s[i][2] |-> DumpsRecord(s[i][2][j])]>>
            ELSE s[i]]

\* a comparison that looks only at the version and at the ids of the trails
roots_equal_ids(a, b) ==
    /\ Get(a, "version", None) = Get(b, "version", None)
    /\ LET ta == Get(a, "trails", <<>>)
           tb == Get(b, "trails", <<>>)
       IN  [i \in DOMAIN ta |-> Get(ta[i], "id", "")] = [i \in DOMAIN tb |-> Get(tb[i], "id", "")]

roots_equal(a, b) == DumpsObject(a) = DumpsObject(b)

-----------------------------------------------------------------------------
(* Track-log documents.                                                    *)
(* A document is [wellFormed, elems, metaName, ext]: whether ET.parse      *)
(* accepts it, its <trk>/<rte> elements in document order, the text of     *)
(* <metadata><name> ("" when there is none) and the tags found under       *)
(* <extensions> (a dict tag -> text).  An element is [kind, name, pts],    *)
(* name "" standing for a missing <name> or one without text; a point is   *)
(* [lat, lon, ele] as safe_float reads them (None: missing or not a        *)
(* number).  All points of the model lie on one meridian.                  *)
(***************************************************************************)

Pt(lat, ele) == [lat |-> lat, lon |-> 28800, ele |-> ele]

\* str.strip() on the names of the model
Strip(s) ==
    CASE s = " " -> ""
      [] s = " Ridge " -> "Ridge"
      [] s = " red " -> "red"
      [] OTHER -> s

\* int(text) on the tag values of the model; None stands for ValueError
ParseInt(s) ==
    CASE s = "0" -> 0
      [] s = "1" -> 1
      [] s = "2" -> 2
      [] s = "3" -> 3
      [] s = "4" -> 4
      [] s = "5" -> 5
      [] OTHER -> None

\* millimetres between two points 0.001 degree of latitude apart on one
\* meridian: 6371000 * 2 * asin(sqrt(sin(dlat/2)^2)) with dlon = 0
MillimetersPerStep == 111195

\* the haversine distance of calculate_elevation_stats, for points on one
\* meridian.  The code computes it in floating point, so what it holds is the
\* distance rounded to the nearest number it can represent; the model keeps
\* whole metres and rounds each computed distance to the nearest one.
Haversine(p, q) == (MillimetersPerStep * Abs(p.lat - q.lat) + 500) \div 1000

RECURSIVE ConcatPts(_, _)
\* the points of the elements of one kind, in document order, points without
\* lat or lon dropped
ConcatPts(elems, kind) ==
    IF elems = <<>> THEN <<>>
    ELSE LET e == Head(elems)
             own == IF e.kind = kind
                    THEN SelectSeq(e.pts, LAMBDA p : p.lat /= None /\ p.lon /= None)
                    ELSE <<>>
         IN  own \o ConcatPts(Tail(elems), kind)

\* parse_gpx_points on a well-formed document: track points, else route points
parse_gpx_points(doc) ==
    LET trk == ConcatPts(doc.elems, "trk")
    IN  IF trk /= <<>> THEN trk ELSE ConcatPts(doc.elems, "rte")

RECURSIVE SumDistance(_)
SumDistance(points) ==
    IF Len(points) < 2 THEN 0
    ELSE Haversine(points[1], points[2]) + SumDistance(Tail(points))

RECURSIVE SumGain(_)
\* sum of the positive deltas between neighbours of the given list
SumGain(pts) ==
    IF Len(pts) < 2 THEN 0
    ELSE (IF pts[2].ele - pts[1].ele > 0 THEN pts[2].ele - pts[1].ele ELSE 0)
         + SumGain(Tail(pts))

RECURSIVE SumLoss(_)
SumLoss(pts) ==
    IF Len(pts) < 2 THEN 0
    ELSE (IF pts[2].ele - pts[1].ele > 0 THEN 0 ELSE Abs(pts[2].ele - pts[1].ele))
         + SumLoss(Tail(pts))

\* the stats dict; avg_gradient is the fraction avg_num / total_distance
\* (0 when total_distance is 0)
StatsDict(gain, loss, num, dist, has) ==
    [elevation_gain |-> gain, elevation_loss |-> loss, avg_num |-> num,
     total_distance |-> dist, has_elevation |-> has]

\* {"has_elevation": False}, read through stats.get(key, 0)
NoStats == StatsDict(0, 0, 0, 0, FALSE)

\* every point taken as one that carries an elevation
PointsWithEle_all(points) == points

\* "Filter points with elevation data"
PointsWithEle(points) == SelectSeq(points, LAMBDA p : p.ele /= None)

\* the distance summed over the points that carry an elevation only
calculate_elevation_stats_ele_only(points) ==
    IF points = <<>> THEN NoStats
    ELSE
    LET points_with_ele == PointsWithEle(points)
        total_distance == SumDistance(points_with_ele)
        elevation_gain == SumGain(points_with_ele)
        elevation_loss == SumLoss(points_with_ele)
    IN  IF Len(points_with_ele) < 2
        THEN StatsDict(0, 0, 0, total_distance, FALSE)
        ELSE StatsDict(elevation_gain, elevation_loss,
                       IF total_distance > 0
                       THEN Abs(elevation_gain - elevation_loss) * 100 ELSE 0,
                       total_distance, TRUE)

calculate_elevation_stats(points) ==
    IF points = <<>> THEN NoStats
    ELSE
    LET points_with_ele == PointsWithEle(points)
        total_distance == SumDistance(points)
        elevation_gain == SumGain(points_with_ele)
        elevation_loss == SumLoss(points_with_ele)
    IN  IF Len(points_with_ele) < 2
        THEN StatsDict(0, 0, 0, total_distance, FALSE)
        ELSE StatsDict(elevation_gain, elevation_loss,
                       IF total_distance > 0
                       THEN Abs(elevation_gain - elevation_loss) * 100 ELSE 0,
                       total_distance, TRUE)

\* avg_gradient < n and avg_gradient > n
GradientBelow(stats, n) ==
    IF stats.total_distance > 0 THEN stats.avg_num < n * stats.total_distance ELSE 0 < n
GradientAbove(stats, n) ==
    IF stats.total_distance > 0 THEN stats.avg_num > n * stats.total_distance ELSE 0 > n

\* DIFFICULTIES[int(md5(trail_id).hexdigest()[:8], 16) % 4] for the ids of the
\* model: md5("a") = 0cc175b9..., md5("b_c") = f750f221..., md5("b") = 92eb5ffe...,
\* md5("c") = 4a8a08f0...
Md5Prefix(trail_id) ==
    CASE trail_id = "a" -> 9       \* 0x0cc175b9 % 16
      [] trail_id = "b_c" -> 1     \* 0xf750f221 % 16
      [] trail_id = "b" -> 14      \* 0x92eb5ffe % 16
      [] trail_id = "c" -> 0       \* 0x4a8a08f0 % 16
      [] OTHER -> 0

stable_random_difficulty(trail_id) ==
    DIFFICULTIES[(Md5Prefix(trail_id) % Len(DIFFICULTIES)) + 1]

\* buckets without the red one
determine_difficulty_from_elevation_no_red(stats, trail_id) ==
    IF ~stats.has_elevation THEN stable_random_difficulty(trail_id)
    ELSE IF GradientBelow(stats, 5) THEN "green"
    ELSE IF GradientBelow(stats, 10) THEN "blue"
    ELSE "black"

determine_difficulty_from_elevation(stats, trail_id) ==
    IF ~stats.has_elevation THEN stable_random_difficulty(trail_id)
    ELSE IF GradientBelow(stats, 5) THEN "green"
    ELSE IF GradientBelow(stats, 10) THEN "blue"
    ELSE IF GradientBelow(stats, 15) THEN "red"
    ELSE "black"

\* a detection that never sees a downhill
detect_trail_styles_generic(stats) == <<"MTB">>

detect_trail_styles(stats) ==
    IF ~stats.has_elevation THEN <<"MTB">>
    ELSE IF stats.elevation_loss > stats.elevation_gain * 2 /\ stats.elevation_loss > 50
         THEN <<"MTB", "DH">>
         ELSE <<"MTB">>

\* tuple(sorted(styles)) for the style tags of the model
SortedStyles(styles) ==
    SelectSeq(<<"DH", "MTB", "XC">>, LAMBDA t : t \in Range(styles))

generate_suitable_text(difficulty, styles) ==
    LET st == SortedStyles(styles)
    IN  CASE difficulty = "green" /\ st = <<"MTB">> -> "Cross Country / All Mountain"
          [] difficulty = "blue" /\ st = <<"MTB">> -> "All Mountain / Cross Country"
          [] difficulty = "blue" /\ st = <<"DH", "MTB">> -> "All Mountain / Enduro / Downhill"
          [] difficulty = "red" /\ st = <<"MTB">> -> "All Mountain / Enduro"
          [] difficulty = "red" /\ st = <<"DH", "MTB">> -> "Enduro / Downhill"
          [] difficulty = "black" /\ st = <<"DH", "MTB">> -> "Downhill / Freeride"
          [] difficulty = "black" /\ st = <<"DH">> -> "Downhill / Freeride"
          [] OTHER ->
                IF difficulty = "green" THEN "Cross Country / All Mountain"
                ELSE IF difficulty = "blue" THEN "All Mountain / Cross Country"
                ELSE IF difficulty = "red" THEN "All Mountain / Enduro"
                ELSE "Downhill / Freeride"

\* get_gpx_track_name: first track name with text, else first route name, else
\* the metadata name; None is "" here
RECURSIVE FirstName(_, _)
FirstName(elems, kind) ==
    IF elems = <<>> THEN ""
    ELSE IF Head(elems).kind = kind /\ Head(elems).name /= "" THEN Head(elems).name
    ELSE FirstName(Tail(elems), kind)

get_gpx_track_name(doc) ==
    IF ~doc.wellFormed THEN ""
    ELSE IF FirstName(doc.elems, "trk") /= "" THEN FirstName(doc.elems, "trk")
    ELSE IF FirstName(doc.elems, "rte") /= "" THEN FirstName(doc.elems, "rte")
    ELSE doc.metaName

\* extract_osm_name: "Route <ref>", else the name tag; None is "" here
extract_osm_name(doc) ==
    IF ~doc.wellFormed THEN ""
    ELSE IF Get(doc.ext, "ref", "") /= "" THEN "Route " \o At(doc.ext, "ref")
    ELSE Get(doc.ext, "name", "")

\* extract_surface_type; None is "" here
extract_surface_type(doc) ==
    IF ~doc.wellFormed THEN "" ELSE Get(doc.ext, "surface", "")

\* child.tag.split('}')[-1]: the parser gives a prefixed element <mtb:scale>
\* the tag {uri}scale, of which the local name is kept
TagName(tag) == IF tag = "mtb:scale" THEN "scale" ELSE tag

\* osm_tags: local name -> text, for the children that have a text
OsmTags(ext) ==
    LET with_text == SelectSeq(ext, LAMBDA kv : kv[2] /= "")
    IN  [i \in DOMAIN with_text |-> <<TagName(with_text[i][1]), with_text[i][2]>>]

determine_trail_type(doc, stats, difficulty) ==
    IF ~doc.wellFormed THEN "xc"     \* except Exception: return "xc"
    ELSE
    LET osm_tags == OsmTags(doc.ext)
        scale == IF Has(osm_tags, "mtb:scale") THEN ParseInt(At(osm_tags, "mtb:scale"))
                 ELSE None
        highway == Get(osm_tags, "highway", "")
    IN  IF scale /= None
        THEN (IF scale >= 4 THEN "dh"
              ELSE IF scale >= 2 THEN "enduro"
              ELSE IF scale >= 1 THEN "trail"
              ELSE "xc")
        ELSE IF highway = "path" /\ difficulty \in {"black", "red"} THEN "enduro"
        ELSE IF highway = "path" /\ difficulty = "blue" THEN "trail"
        ELSE IF ~stats.has_elevation
        THEN (IF difficulty = "black" THEN "dh"
              ELSE IF difficulty = "red" THEN "enduro"
              ELSE "trail")
        ELSE IF 2 * stats.elevation_loss > 3 * stats.elevation_gain
                /\ stats.elevation_loss > 100
        THEN "dh"
        ELSE IF difficulty = "black"
        THEN (IF GradientAbove(stats, 15) \/ stats.elevation_loss > 200
              THEN "dh" ELSE "enduro")
        ELSE IF difficulty = "red"
        THEN (IF GradientAbove(stats, 12) THEN "enduro" ELSE "trail")
        ELSE IF GradientAbove(stats, 8) THEN "trail"
        ELSE IF GradientAbove(stats, 5) THEN "trail"
        ELSE "xc"

-----------------------------------------------------------------------------
(* Generated texts.  The fixed phrases of TRAIL_TYPE_NAMES,                *)
(* TRAIL_TYPE_DESCRIPTIONS, SURFACE_DESCRIPTIONS and                       *)
(* DIFFICULTY_DESCRIPTIONS are written as the table entry they come from.  *)
(***************************************************************************)

\* f"{metres / 1000:.1f}"
FormatKm(metres) ==
    LET tenths == (metres + 50) \div 100
    IN  ToString(tenths \div 10) \o "." \o ToString(tenths % 10)

\* str.replace("_", " ").title() on the ids of the model
Title(tid) ==
    CASE tid = "a" -> "A"
      [] tid = "b" -> "B"
      [] tid = "b_c" -> "B C"
      [] tid = "c" -> "C"
      [] OTHER -> tid

TRAIL_TYPE_NAMES(trail_type, lang) == "TYPE_NAME[" \o trail_type \o "][" \o lang \o "]"
TRAIL_TYPE_DESCRIPTIONS(trail_type, difficulty) ==
    "TYPE_DESC[" \o trail_type \o "][" \o difficulty \o "]"
SURFACE_DESCRIPTIONS == {"dirt", "gravel", "paved", "ground"}
DIFFICULTY_DESCRIPTIONS(difficulty) == "DIFF_DESC[" \o difficulty \o "]"

detect_region_from_coords(lat, lon) ==
    IF 45400 <= lat /\ lat <= 45900 /\ 21200 <= lon /\ lon <= 21800 THEN "Timis"
    ELSE IF 44700 <= lat /\ lat <= 45200 /\ 22500 <= lon /\ lon <= 23000 THEN "Caras-Severin"
    ELSE IF 47000 <= lat /\ lat <= 47800 /\ 23500 <= lon /\ lon <= 24500 THEN "Cluj"
    ELSE IF 46000 <= lat /\ lat <= 46500 /\ 24500 <= lon /\ lon <= 25500 THEN "Brasov"
    ELSE IF 45000 <= lat /\ lat <= 45500 /\ 25500 <= lon /\ lon <= 26500 THEN "Prahova"
    ELSE "Romania"

\* the import of deep_translator failed: translations are skipped
TRANSLATOR_AVAILABLE == FALSE

\* what GoogleTranslator returns, when there is one
Translated(text, target_lang) == "[" \o target_lang \o "] " \o text

translate_text(text, target_lang) ==
    IF ~TRANSLATOR_AVAILABLE \/ Strip(text) = "" THEN text
    ELSE Translated(text, target_lang)

\* a map that holds the source language only
auto_translate_i18n_source_only(source_text, source_lang) ==
    << <<source_lang, source_text>> >>

auto_translate_i18n(source_text, source_lang) ==
    [i \in DOMAIN LANGS |->
        <<LANGS[i],
          IF LANGS[i] = source_lang THEN source_text
          ELSE IF TRANSLATOR_AVAILABLE /\ translate_text(source_text, LANGS[i]) /= ""
               THEN translate_text(source_text, LANGS[i])
               ELSE source_text>>]

default_i18n(text) == [i \in DOMAIN LANGS |-> <<LANGS[i], text>>]

\* generate_smart_name; None is <<>> here
generate_smart_name(doc, stats, trail_type) ==
    LET pts == parse_gpx_points(doc)
    IN  IF ~doc.wellFormed \/ pts = <<>> THEN <<>>
        ELSE LET region == detect_region_from_coords(pts[1].lat, pts[1].lon)
                 km == FormatKm(stats.total_distance)
             IN  [i \in DOMAIN LANGS |->
                    <<LANGS[i],
                      TRAIL_TYPE_NAMES(trail_type, LANGS[i]) \o " " \o region \o " "
                          \o km \o " km">>]

generate_description(doc, stats, difficulty, country_code, trail_type) ==
    LET km == FormatKm(stats.total_distance)
        surface == extract_surface_type(doc)
        part1 == IF stats.has_elevation
                 THEN (IF 10 * stats.elevation_loss > 12 * stats.elevation_gain
                       THEN "Trail " \o km \o " km, drop "
                                \o ToString(stats.elevation_loss) \o " m"
                       ELSE "Trail " \o km \o " km, climb "
                                \o ToString(stats.elevation_gain) \o " m")
                 ELSE "Trail " \o km \o " km"
        part3 == IF surface \in SURFACE_DESCRIPTIONS
                 THEN ". SURFACE[" \o surface \o "]" ELSE ""
    IN  part1 \o ". " \o TRAIL_TYPE_DESCRIPTIONS(trail_type, difficulty) \o part3
            \o ". " \o DIFFICULTY_DESCRIPTIONS(difficulty) \o "."

-----------------------------------------------------------------------------
(* build_trail_object *)

\* any(v for v in d.values() if v)
HasExisting(d) == \E i \in DOMAIN d : d[i][2] /= ""

\* next((v for v in d.values() if v), default)
FirstValue(d, default) ==
    IF HasExisting(d)
    THEN d[CHOOSE i \in DOMAIN d : d[i][2] /= "" /\ \A j \in 1..(i - 1) : d[j][2] = ""][2]
    ELSE default

\* a fill that takes the first non-empty value without looking at "ru"
KeepAuthored_first_value(prev_map, default) ==
    [i \in DOMAIN LANGS |->
        <<LANGS[i],
          IF Get(prev_map, LANGS[i], "") /= "" THEN At(prev_map, LANGS[i])
          ELSE FirstValue(prev_map, default)>>]

\* the loop that fills every language from an authored map
KeepAuthored(prev_map, default) ==
    [i \in DOMAIN LANGS |->
        <<LANGS[i],
          IF Get(prev_map, LANGS[i], "") /= "" THEN At(prev_map, LANGS[i])
          ELSE IF Get(prev_map, "ru", "") /= "" THEN At(prev_map, "ru")
          ELSE FirstValue(prev_map, default)>>]

\* the "smart generation" of a name; fallback is what the last else branch uses
GenerateName(tid, doc, stats, difficulty, unverified, fallback) ==
    LET gpx_name == get_gpx_track_name(doc)
        osm_name == extract_osm_name(doc)
        cleaned == Title(tid)
    IN  IF gpx_name /= "" THEN auto_translate_i18n(gpx_name, "ru")
        ELSE IF osm_name /= "" THEN auto_translate_i18n(osm_name, "en")
        ELSE IF unverified /\ stats.total_distance > 0
        THEN LET trail_type == determine_trail_type(doc, stats, difficulty)
                 smart_name == generate_smart_name(doc, stats, trail_type)
             IN  IF smart_name /= <<>> THEN smart_name
                 ELSE auto_translate_i18n(cleaned \o " Trail", "en")
        ELSE default_i18n(fallback)

\* a difficulty that lets the computed value win over the prior one
BuildDifficulty_computed_first(prev, tid, stats, unverified) ==
    LET prev_diff == Get(prev, "difficulty", "")
    IN  IF unverified /\ stats.has_elevation
        THEN determine_difficulty_from_elevation(stats, tid)
        ELSE IF Strip(prev_diff) \in Range(DIFFICULTIES) THEN Strip(prev_diff)
        ELSE stable_random_difficulty(tid)

BuildDifficulty(prev, tid, stats, unverified) ==
    LET prev_diff == Get(prev, "difficulty", "")
    IN  IF Strip(prev_diff) \in Range(DIFFICULTIES) THEN Strip(prev_diff)
        ELSE IF unverified /\ stats.has_elevation
        THEN determine_difficulty_from_elevation(stats, tid)
        ELSE stable_random_difficulty(tid)

BuildStyles(prev, stats, unverified) ==
    LET prev_styles == Get(prev, "styles", <<>>)
    IN  IF Len(prev_styles) > 0 THEN prev_styles
        ELSE IF unverified /\ stats.has_elevation THEN detect_trail_styles(stats)
        ELSE <<>>

BuildName(prev, tid, doc, stats, difficulty, unverified) ==
    IF Has(prev, "name")
    THEN IF HasExisting(At(prev, "name")) THEN KeepAuthored(At(prev, "name"), tid)
         ELSE GenerateName(tid, doc, stats, difficulty, unverified, Title(tid))
    ELSE GenerateName(tid, doc, stats, difficulty, unverified, tid)

BuildSuitable(prev, difficulty, styles, unverified) ==
    IF Has(prev, "suitable") /\ HasExisting(Get(prev, "suitable", <<>>))
    THEN KeepAuthored(At(prev, "suitable"), "")
    ELSE IF unverified
    THEN auto_translate_i18n(generate_suitable_text(difficulty, styles), "en")
    ELSE default_i18n("")

BuildDesc(prev, doc, stats, difficulty, country_id, unverified) ==
    IF Has(prev, "desc") /\ HasExisting(Get(prev, "desc", <<>>))
    THEN KeepAuthored(At(prev, "desc"), "")
    ELSE IF unverified /\ country_id /= ""
    THEN auto_translate_i18n(
             generate_description(doc, stats, difficulty, country_id,
                                  determine_trail_type(doc, stats, difficulty)), "ru")
    ELSE default_i18n("")

\* the keys build_trail_object sets itself, in its "stable key order"
OwnedObject(prev, tid, gpx_url, start_lat, start_lon, doc, country_id, unverified) ==
    LET pts_with_ele == parse_gpx_points(doc)
        stats == IF pts_with_ele /= <<>> THEN calculate_elevation_stats(pts_with_ele)
                 ELSE NoStats
        difficulty == BuildDifficulty(prev, tid, stats, unverified)
        styles == BuildStyles(prev, stats, unverified)
        obj == << <<"id", tid>>,
                  <<"cityId", Get(prev, "cityId", "chisinau")>>,
                  <<"styles", styles>>,
                  <<"name", BuildName(prev, tid, doc, stats, difficulty, unverified)>>,
                  <<"suitable", BuildSuitable(prev, difficulty, styles, unverified)>>,
                  <<"difficulty", difficulty>>,
                  <<"desc", BuildDesc(prev, doc, stats, difficulty, country_id, unverified)>>,
                  <<"gpxUrl", gpx_url>>,
                  <<"startLat", start_lat>>,
                  <<"startLon", start_lon>> >>
    IN  IF country_id /= "" THEN Append(obj, <<"countryId", country_id>>)
        ELSE IF Has(prev, "countryId") THEN Append(obj, <<"countryId", At(prev, "countryId")>>)
        ELSE obj

\* a builder that copies nothing from prev beyond the schema
ExtraFields_dropped(prev, owned) == <<>>

\* "Preserve any extra custom fields": the pairs of prev whose key is not owned
ExtraFields(prev, owned) == SelectSeq(prev, LAMBDA kv : kv[1] \notin owned)

build_trail_object(prev, tid, gpx_url, start_lat, start_lon, doc, country_id, unverified) ==
    LET obj == OwnedObject(prev, tid, gpx_url, start_lat, start_lon, doc, country_id,
                           unverified)
    IN  obj \o ExtraFields(prev, Keys(obj))

-----------------------------------------------------------------------------
(* The catalog document and the directory tree *)

\* a parsed JSON document: a dict (t = "object"), a list (t = "array"), or the
\* None load_root returns when there is no file (t = "none")
ObjectRoot(kv) == [t |-> "object", kv |-> kv, items |-> <<>>]
ArrayRoot(items) == [t |-> "array", kv |-> <<>>, items |-> items]
NoRoot == [t |-> "none", kv |-> <<>>, items |-> <<>>]

\* the file json_path: absent, a complete JSON text, or what an interrupted
\* write leaves (an empty file, a truncated text)
NoCatalog == [kind |-> "missing", root |-> NoRoot]
JsonFile(root) == [kind |-> "json", root |-> root]
EmptyFile == [kind |-> "empty", root |-> NoRoot]
TruncatedFile(root) == [kind |-> "partial", root |-> root]

\* json.load raises on an empty or truncated text
LoadFails(d) == d.kind \in {"empty", "partial"}
load_root(d) == IF d.kind = "json" THEN d.root ELSE NoRoot

\* strftime("%Y-%m-%d") of the days of the model
DateStr(day) == "2026-01-0" \o ToString(day)
today_yyyy_mm_dd == DateStr(today)

\* upsert_file's arguments in main(): verified and unverified catalog
gpx_folder_name(unverified) == IF unverified THEN "gpx_unverified" ELSE "gpx"
default_version(unverified) == IF unverified THEN 1 ELSE 10

\* the folders upsert_file globs, in the order it does: gpx_dir, then COUNTRY_FOLDERS
Folders == <<"">> \o [i \in DOMAIN COUNTRY_FOLDERS |-> COUNTRY_FOLDERS[i][1]]
CountryOf(folder) ==
    IF folder = "" THEN ""
    ELSE COUNTRY_FOLDERS[CHOOSE i \in DOMAIN COUNTRY_FOLDERS : COUNTRY_FOLDERS[i][1] = folder][2]
\* COUNTRY_CODE_TO_FOLDER
FolderOf(country_code) ==
    COUNTRY_FOLDERS[CHOOSE i \in DOMAIN COUNTRY_FOLDERS : COUNTRY_FOLDERS[i][2] = country_code][1]

\* the base names of the model, in sorted() order
StemOrder == <<"a", "b_c">>

\* the paths of the model that may hold a file: <<folder, stem>>
Slots == { <<"", "a">>, <<"", "b_c">>, <<"gpx_romania", "a">>, <<"gpx_poland", "a">> }

\* every path, folder by folder in glob order, sorted within a folder
PathOrder ==
    [i \in 1..(Len(Folders) * Len(StemOrder)) |->
        <<Folders[((i - 1) \div Len(StemOrder)) + 1],
          StemOrder[((i - 1) % Len(StemOrder)) + 1]>>]

NoFile == 0

\* the documents a file of the model may hold
GpxDocs ==
    << \* 1: one named track, no elevation
       [wellFormed |-> TRUE,
        elems |-> << [kind |-> "trk", name |-> "Lake Loop",
                      pts |-> <<Pt(47000, None), Pt(47005, None), Pt(47010, None)>>] >>,
        metaName |-> "", ext |-> <<>>],
       \* 2: one unnamed track dropping 400 m over 1112 m
       [wellFormed |-> TRUE,
        elems |-> << [kind |-> "trk", name |-> "",
                      pts |-> <<Pt(46900, 500), Pt(46905, 300), Pt(46910, 100)>>] >>,
        metaName |-> "", ext |-> << <<"surface", "dirt">> >>],
       \* 3: a document without points
       [wellFormed |-> TRUE, elems |-> <<>>, metaName |-> "", ext |-> <<>>],
       \* 4: one unnamed route climbing 50 m over 2224 m, with OSM tags
       [wellFormed |-> TRUE,
        elems |-> << [kind |-> "rte", name |-> "",
                      pts |-> <<Pt(47100, 100), Pt(None, 120), Pt(47120, 150)>>] >>,
        metaName |-> "", ext |-> << <<"ref", "DC49">>, <<"highway", "path">> >>],
       \* 5: not XML
       [wellFormed |-> FALSE, elems |-> <<>>, metaName |-> "", ext |-> <<>>] >>

\* the contents each path takes in the model (indices into GpxDocs)
SlotDocs(slot) ==
    CASE slot = <<"", "a">> -> {1, 4}
      [] slot = <<"", "b_c">> -> {2, 5}
      [] slot = <<"gpx_romania", "a">> -> {2}
      [] slot = <<"gpx_poland", "a">> -> {3}

DocAt(fs, slot) == GpxDocs[fs[slot]]

-----------------------------------------------------------------------------
(* upsert_file *)

\* isinstance(existing_root, dict) and isinstance(existing_root.get("trails"), list)
IsCatalog(root) == root.t = "object" /\ Has(root.kv, "trails")

\* the records upsert_file indexes: dicts with a truthy id
Indexed(existing_trails) == SelectSeq(existing_trails, LAMBDA t : Get(t, "id", "") /= "")
\* order
OrderOf(existing_trails) ==
    LET ix == Indexed(existing_trails) IN [i \in DOMAIN ix |-> At(ix[i], "id")]
\* existing_by_id[tid]: the last record of that id
ExistingById(existing_trails, tid) ==
    LET ix == Indexed(existing_trails)
    IN  ix[CHOOSE i \in DOMAIN ix :
              At(ix[i], "id") = tid /\ \A j \in (i + 1)..Len(ix) : At(ix[j], "id") /= tid]

\* all_gpx_files: the root folder's files, then (unverified only) each country
\* folder's, as <<folder, stem>>
all_gpx_files(fs, unverified) ==
    SelectSeq(PathOrder,
              LAMBDA p : p \in Slots /\ fs[p] /= NoFile /\ (p[1] = "" \/ unverified))

\* file_by_id: the last file of each base name wins
FileIds(all) == {all[i][2] : i \in DOMAIN all}
FileById(all, tid) ==
    all[CHOOSE i \in DOMAIN all :
           all[i][2] = tid /\ \A j \in (i + 1)..Len(all) : all[j][2] /= tid]

GpxUrl(unverified, path) ==
    IF CountryOf(path[1]) /= ""
    THEN raw_base \o "/" \o gpx_folder_name(unverified) \o "/"
             \o FolderOf(CountryOf(path[1])) \o "/" \o path[2] \o ".gpx"
    ELSE raw_base \o "/" \o gpx_folder_name(unverified) \o "/" \o path[2] \o ".gpx"

\* one iteration of either loop of upsert_file; prev is <<>> for a new id
TrailFor(fs, unverified, prev, tid, path) ==
    LET doc == DocAt(fs, path)
        pts == parse_gpx_points(doc)
        start_lat == IF pts /= <<>> THEN pts[1].lat ELSE Get(prev, "startLat", None)
        start_lon == IF pts /= <<>> THEN pts[1].lon ELSE Get(prev, "startLon", None)
    IN  build_trail_object(prev, tid, GpxUrl(unverified, path), start_lat, start_lon,
                           doc, CountryOf(path[1]), unverified)

\* a first loop that goes through the known ids in sorted order
KeptOrder_sorted(existing_trails, all) ==
    SelectSeq(StemOrder,
              LAMBDA tid : tid \in FileIds(all) /\ tid \in Range(OrderOf(existing_trails)))

\* "Keep old order first": the known ids that still have a file
KeptOrder(existing_trails, all) ==
    SelectSeq(OrderOf(existing_trails), LAMBDA tid : tid \in FileIds(all))

\* a second loop that adds nothing
NewIds_none(existing_trails, all) == <<>>

\* "Add new GPX not present in JSON, sorted by id"
NewIds(existing_trails, all) ==
    SelectSeq(StemOrder,
              LAMBDA tid : tid \in FileIds(all) /\ tid \notin Range(OrderOf(existing_trails)))

NewTrails(existing_trails, fs, unverified) ==
    LET all == all_gpx_files(fs, unverified)
        kept == KeptOrder(existing_trails, all)
        fresh == NewIds(existing_trails, all)
    IN  [i \in DOMAIN kept |->
            TrailFor(fs, unverified, ExistingById(existing_trails, kept[i]), kept[i],
                     FileById(all, kept[i]))]
        \o
        [i \in DOMAIN fresh |->
            TrailFor(fs, unverified, <<>>, fresh[i], FileById(all, fresh[i]))]

\* a parser that never raises
ParseFails_never(fs, unverified) == FALSE

\* ET.parse raises in parse_gpx_points for a file the loops reach
ParseFails(fs, unverified) ==
    LET all == all_gpx_files(fs, unverified)
    IN  \E tid \in FileIds(all) : ~DocAt(fs, FileById(all, tid)).wellFormed

\* a stamp that takes the current date whenever a catalog exists
Stamp_always(existing, version, updated_at, new_trails, now) ==
    IF IsCatalog(existing) THEN now ELSE updated_at

\* "Update updatedAt only if trails changed": the date upsert_file writes
Stamp(existing, version, updated_at, new_trails, now) ==
    IF IsCatalog(existing)
    THEN LET old_compare == Put(existing.kv, "updatedAt", X)
             new_compare == << <<"version", version>>, <<"updatedAt", X>>,
                               <<"trails", new_trails>> >>
         IN  IF ~roots_equal(old_compare, new_compare) THEN now
             ELSE Get(existing.kv, "updatedAt", updated_at)
    ELSE updated_at

\* the root upsert_file hands to save_root
upsert_root(existing, fs, unverified, now) ==
    LET known == IsCatalog(existing)
        version == IF known THEN Get(existing.kv, "version", default_version(unverified))
                   ELSE default_version(unverified)
        updated_at == IF known THEN Get(existing.kv, "updatedAt", now) ELSE now
        existing_trails == IF known THEN At(existing.kv, "trails") ELSE <<>>
        new_trails == NewTrails(existing_trails, fs, unverified)
    IN  ObjectRoot(<< <<"version", version>>,
                      <<"updatedAt", Stamp(existing, version, updated_at, new_trails, now)>>,
                      <<"trails", new_trails>> >>)

-----------------------------------------------------------------------------
(* Initial catalogs: what an operator may have left in json_path *)

\* records of a prior catalog
PriorRecords ==
    { \* nothing but the id
      << <<"id", "a">> >>,
      \* a curated record: manual difficulty, styles, partial texts, extra key
      << <<"id", "a">>, <<"cityId", "balti">>, <<"styles", <<"XC">>>>,
         <<"name", << <<"ru", "Ozero">>, <<"en", "Lake">> >>>>,
         <<"suitable", << <<"ru", "">>, <<"ro", "">>, <<"uk", "">>, <<"en", "">> >>>>,
         <<"difficulty", "black">>,
         <<"desc", << <<"en", "Nice">> >>>>,
         <<"gpxUrl", "old">>, <<"startLat", 1>>, <<"startLon", 2>>,
         <<"note", "keep">> >>,
      \* keys in another order, padded difficulty, empty texts, countryId
      << <<"rating", "5">>, <<"difficulty", " red ">>, <<"id", "b_c">>,
         <<"name", << <<"ru", "">>, <<"en", "">> >>>>,
         <<"countryId", "pl">>, <<"styles", <<>>>> >>,
      \* invalid difficulty, a text under a language that is not configured
      << <<"id", "b_c">>, <<"difficulty", "hard">>,
         <<"name", << <<"de", "See">> >>>>,
         <<"suitable", << <<"ru", "">>, <<"en", "Trail riders">> >>>>,
         <<"note", "n2">> >>,
      \* a record without id
      << <<"note", "orphan">> >> }

InitialRoots ==
    \* the documented shape
    { ObjectRoot(<< <<"version", 3>>, <<"updatedAt", DateStr(1)>>, <<"trails", l>> >>) :
        l \in SeqsUpTo(PriorRecords, MaxTrails) }
    \cup \* the older bare array
    { ArrayRoot(l) : l \in SeqsUpTo(PriorRecords, 1) }
    \cup \* an object without version
    { ObjectRoot(<< <<"updatedAt", DateStr(1)>>, <<"trails", l>> >>) :
        l \in SeqsUpTo(PriorRecords, 1) }
    \cup \* an object with one more top-level key, keys in another order
    { ObjectRoot(<< <<"trails", l>>, <<"schema", "v2">>, <<"updatedAt", DateStr(1)>>,
                    <<"version", 3>> >>) : l \in SeqsUpTo(PriorRecords, 1) }
    \cup \* an object without updatedAt
    { ObjectRoot(<< <<"version", 3>>, <<"trails", l>> >>) : l \in SeqsUpTo(PriorRecords, 1) }
    \cup \* an object without trails
    { ObjectRoot(<< <<"version", 3>>, <<"updatedAt", DateStr(1)>> >>) }

InitialDisks == {NoCatalog} \cup {JsonFile(r) : r \in InitialRoots}

InitialFiles ==
    {fs \in [Slots -> 0..Len(GpxDocs)] : \A s \in Slots : fs[s] \in SlotDocs(s) \cup {NoFile}}

-----------------------------------------------------------------------------
(* The merge engine as a state machine *)

Resting == {"idle", "done", "failed"}

SplitIdle ==
    /\ sp_dir = {}
    /\ sp_pc = "off"
    /\ sp_idx = 0
    /\ sp_created = <<>>
    /\ sp_input = <<>>

\* the value of ret while the call has not returned
NotReturned == [pending |-> TRUE, value |-> <<>>]
\* the value of ret once the call has returned v
Returned(v) == [pending |-> FALSE, value |-> v]

CallIdle ==
    /\ call = <<>>
    /\ ret = NotReturned

Init ==
    /\ disk \in InitialDisks
    /\ files \in InitialFiles
    /\ today = 2
    /\ is_unverified \in BOOLEAN
    /\ pc = "idle"
    /\ existing_root = NoRoot
    /\ new_root = NoRoot
    /\ rerun = FALSE
    /\ clean = FALSE
    /\ runs = 0
    /\ SplitIdle
    /\ CallIdle

\* one call of upsert_file: load, reconcile, stamp, save; an unparsable catalog
\* or track-log file ends it with an exception before anything is written
Upsert ==
    /\ pc \in Resting
    /\ runs < MaxRuns
    /\ runs' = runs + 1
    /\ rerun' = clean
    /\ existing_root' = load_root(disk)
    /\ IF LoadFails(disk) \/ ParseFails(files, is_unverified)
       THEN /\ pc' = "failed"
            /\ new_root' = NoRoot
            /\ UNCHANGED <<disk, clean>>
       ELSE /\ new_root' = upsert_root(load_root(disk), files, is_unverified,
                                       today_yyyy_mm_dd)
            /\ disk' = JsonFile(new_root')
            /\ clean' = TRUE
            /\ pc' = "done"
    /\ UNCHANGED <<files, today, is_unverified>>
    /\ UNCHANGED splitVars
    /\ UNCHANGED callVars

\* between two runs somebody adds, replaces or removes a track-log file
ChangeFile ==
    /\ pc \in {"done", "failed"}
    /\ \E s \in Slots : \E d \in (SlotDocs(s) \cup {NoFile}) \ {files[s]} :
          files' = [files EXCEPT ![s] = d]
    /\ pc' = "idle"
    /\ clean' = FALSE
    /\ rerun' = FALSE
    /\ existing_root' = NoRoot
    /\ new_root' = NoRoot
    /\ UNCHANGED <<disk, today, is_unverified, runs>>
    /\ UNCHANGED splitVars
    /\ UNCHANGED callVars

\* between two runs the date changes
AdvanceDay ==
    /\ pc \in {"done", "failed"}
    /\ today < MaxDay
    /\ today' = today + 1
    /\ pc' = "idle"
    /\ rerun' = FALSE
    /\ existing_root' = NoRoot
    /\ new_root' = NoRoot
    /\ UNCHANGED <<disk, files, is_unverified, runs, clean>>
    /\ UNCHANGED splitVars
    /\ UNCHANGED callVars

Next == Upsert \/ ChangeFile \/ AdvanceDay

Spec == Init /\ [][Next]_vars

-----------------------------------------------------------------------------
(* The same run step by step, for a process that may stop in the middle:    *)
(* upsert_file up to the call of save_root, then save_root's open("w"),    *)
(* json.dump and close.                                                    *)

\* upsert_file from load_root to the construction of new_root
Reconcile ==
    /\ pc \in Resting \cup {"crashed"}
    /\ runs < MaxRuns
    /\ runs' = runs + 1
    /\ rerun' = clean
    /\ existing_root' = load_root(disk)
    /\ IF LoadFails(disk) \/ ParseFails(files, is_unverified)
       THEN /\ pc' = "failed"
            /\ new_root' = NoRoot
       ELSE /\ new_root' = upsert_root(load_root(disk), files, is_unverified,
                                       today_yyyy_mm_dd)
            /\ pc' = "save"
    /\ UNCHANGED <<disk, clean, files, today, is_unverified>>
    /\ UNCHANGED splitVars
    /\ UNCHANGED callVars

\* path.open("w"): the file is created or truncated to nothing
SaveOpen ==
    /\ pc = "save"
    /\ disk' = EmptyFile
    /\ clean' = FALSE
    /\ pc' = "open"
    /\ UNCHANGED <<files, today, is_unverified, existing_root, new_root, rerun, runs>>
    /\ UNCHANGED splitVars
    /\ UNCHANGED callVars

\* json.dump(root_obj, f): the text goes to the buffered file; the part that
\* overflowed the buffer, if any, is on disk
SaveDump ==
    /\ pc = "open"
    /\ disk' \in {EmptyFile, TruncatedFile(new_root)}
    /\ pc' = "dumped"
    /\ UNCHANGED <<files, today, is_unverified, existing_root, new_root, rerun, runs, clean>>
    /\ UNCHANGED splitVars
    /\ UNCHANGED callVars

\* f.write("\n") and the end of the with block: everything is flushed
SaveClose ==
    /\ pc = "dumped"
    /\ disk' = JsonFile(new_root)
    /\ clean' = TRUE
    /\ pc' = "done"
    /\ UNCHANGED <<files, today, is_unverified, existing_root, new_root, rerun, runs>>
    /\ UNCHANGED splitVars
    /\ UNCHANGED callVars

\* the process stops (killed, power loss) somewhere in save_root or just before
Crash ==
    /\ pc \in {"save", "open", "dumped"}
    /\ pc' = "crashed"
    /\ UNCHANGED <<disk, files, today, is_unverified, existing_root, new_root, rerun,
                   runs, clean>>
    /\ UNCHANGED splitVars
    /\ UNCHANGED callVars

NextCrash == Reconcile \/ SaveOpen \/ SaveDump \/ SaveClose \/ Crash

SpecCrash == Init /\ [][NextCrash]_vars

-----------------------------------------------------------------------------
(* split_multi_track_gpx on one file of a country folder.  The directory   *)
(* is the set of the base names (without .gpx) of the files in it.         *)

\* n points on the meridian, step thousandths of a degree apart
Line(n, step) == [i \in 1..n |-> Pt(47000 + (i - 1) * step, None)]

\* a name of 300 letters, longer than a file name may be
LongName == "Lx300"

\* the <trk> and <rte> elements a file given to the splitter is made of;
\* name "" is an element without <name> or with an empty one
SplitElems ==
    << \* 1: track, 10 points, 9 steps: accepted
       [kind |-> "trk", name |-> "Ridge", pts |-> Line(10, 1)],
       \* 2: track, 9 points
       [kind |-> "trk", name |-> "Ridge", pts |-> Line(9, 2)],
       \* 3: track with a blank name
       [kind |-> "trk", name |-> " ", pts |-> Line(10, 1)],
       \* 4: route of the same name, 10 points, 449 steps: accepted
       [kind |-> "rte", name |-> " Ridge ", pts |-> Line(9, 50) \o <<Pt(47449, None)>>],
       \* 5: track without name
       [kind |-> "trk", name |-> "", pts |-> Line(10, 1)],
       \* 6: track, 10 points, 8 steps: too short
       [kind |-> "trk", name |-> "Low Pass", pts |-> Line(9, 1) \o <<Pt(47008, None)>>],
       \* 7: route, 10 points, 451 steps: too long
       [kind |-> "rte", name |-> "Far", pts |-> Line(9, 50) \o <<Pt(47451, None)>>],
       \* 8: track of 10 <trkpt>, one of them without lat
       [kind |-> "trk", name |-> "Gap", pts |-> Line(9, 2) \o <<Pt(None, None)>>],
       \* 9: a good track whose name is too long for a file name
       [kind |-> "trk", name |-> LongName, pts |-> Line(10, 1)] >>

\* sanitize_filename on the names of the model
sanitize_filename(name) ==
    CASE name = "Ridge" -> "ridge"
      [] name = "Low Pass" -> "low_pass"
      [] name = "Far" -> "far"
      [] name = "Gap" -> "gap"
      [] name = LongName -> "lx300"
      [] name = "" -> "unnamed"
      [] OTHER -> name

\* convert_route_to_track: the name and the other children are copied, the
\* <rtept> become the <trkpt> of one <trkseg>
convert_route_to_track(rte_elem) == [rte_elem EXCEPT !.kind = "trk"]

\* should_process_track: the element alone in a temporary document, parsed
\* and measured
should_process_track_points_only(trk_elem) ==
    Len(parse_gpx_points([wellFormed |-> TRUE, elems |-> <<trk_elem>>,
                          metaName |-> "", ext |-> <<>>])) >= 10

should_process_track(trk_elem) ==
    LET pts == parse_gpx_points([wellFormed |-> TRUE, elems |-> <<trk_elem>>,
                                 metaName |-> "", ext |-> <<>>])
        length == calculate_elevation_stats(pts).total_distance
    IN  IF Len(pts) < 10 THEN FALSE
        ELSE IF length < 900 THEN FALSE
        ELSE IF length > 50000 THEN FALSE
        ELSE TRUE

RECURSIVE NextFreePath(_, _, _)
\* the while loop: stem_1, stem_2, ... until the path does not exist
NextFreePath(dir, stem, counter) ==
    LET new_path == stem \o "_" \o ToString(counter)
    IN  IF new_path \in dir THEN NextFreePath(dir, stem, counter + 1) ELSE new_path

\* the sanitized name taken as it is, whatever the directory holds
UniquePath_unchecked(dir, stem) == stem

\* "Ensure unique filename"
UniquePath(dir, stem) == IF stem \in dir THEN NextFreePath(dir, stem, 1) ELSE stem

\* the file system refuses the path (OSError: File name too long)
PathRaises(new_path) == new_path = sanitize_filename(LongName)

\* tracks, then routes, each in document order
SplitOrder(input) ==
    SelectSeq(input.elems, LAMBDA e : e.kind = "trk")
    \o SelectSeq(input.elems, LAMBDA e : e.kind = "rte")

\* the files the splitter is given and the directories they lie in
SplitInputs ==
    {[stem |-> st, wellFormed |-> TRUE, dir0 |-> {st} \cup others,
      elems |-> [i \in DOMAIN ix |-> SplitElems[ix[i]]]] :
        st \in {"multi", "ridge"}, others \in SUBSET {"ridge", "ridge_1"},
        ix \in SeqsUpTo(DOMAIN SplitElems, MaxElems)}
    \cup {[stem |-> "multi", wellFormed |-> FALSE, dir0 |-> {"multi"}, elems |-> <<>>]}

InitSplit ==
    /\ disk = NoCatalog
    /\ files = [s \in Slots |-> NoFile]
    /\ today = 2
    /\ is_unverified = TRUE
    /\ pc = "idle"
    /\ existing_root = NoRoot
    /\ new_root = NoRoot
    /\ rerun = FALSE
    /\ clean = FALSE
    /\ runs = 0
    /\ sp_input \in SplitInputs
    /\ sp_dir = sp_input.dir0
    /\ sp_pc = "start"
    /\ sp_idx = 0
    /\ sp_created = <<>>
    /\ CallIdle

\* a check that lets a file of one element through
NothingToSplit_none_only(input) == Len(input.elems) < 1

\* "if total_elements <= 1": single track/route or none, no need to split
NothingToSplit(input) == Len(input.elems) <= 1

\* ET.parse and the count of elements: nothing to split for one or none
SplitStart ==
    /\ sp_pc = "start"
    /\ sp_pc' = IF ~sp_input.wellFormed THEN "raised"
                ELSE IF NothingToSplit(sp_input) THEN "single"
                ELSE "loop"
    /\ sp_idx' = 1
    /\ UNCHANGED <<sp_dir, sp_created, sp_input>>
    /\ UNCHANGED mergeVars
    /\ UNCHANGED callVars

\* one turn of the track loop or of the route loop
SplitElement ==
    /\ sp_pc = "loop"
    /\ sp_idx <= Len(SplitOrder(sp_input))
    /\ LET e == SplitOrder(sp_input)[sp_idx]
           trk == IF e.kind = "rte" THEN convert_route_to_track(e) ELSE e
           new_path == UniquePath(sp_dir, sanitize_filename(Strip(e.name)))
       IN  IF Strip(e.name) = "" \/ ~should_process_track(trk)
           THEN /\ sp_idx' = sp_idx + 1
                /\ UNCHANGED <<sp_dir, sp_created, sp_pc>>
           ELSE IF PathRaises(new_path)
           THEN /\ sp_pc' = "raised"
                /\ UNCHANGED <<sp_dir, sp_created, sp_idx>>
           ELSE /\ sp_dir' = sp_dir \cup {new_path}
                /\ sp_created' = Append(sp_created, new_path)
                /\ sp_idx' = sp_idx + 1
                /\ UNCHANGED sp_pc
    /\ UNCHANGED sp_input
    /\ UNCHANGED mergeVars
    /\ UNCHANGED callVars

\* the original deleted at any turn of the loops
SplitFinish_any_turn ==
    /\ sp_pc = "loop"
    /\ sp_dir' = sp_dir \ {sp_input.stem}
    /\ sp_pc' = "returned"
    /\ UNCHANGED <<sp_idx, sp_created, sp_input>>
    /\ UNCHANGED mergeVars
    /\ UNCHANGED callVars

\* after the loops: the original is deleted and created_files returned
SplitFinish ==
    /\ sp_pc = "loop"
    /\ sp_idx > Len(SplitOrder(sp_input))
    /\ sp_dir' = sp_dir \ {sp_input.stem}
    /\ sp_pc' = "returned"
    /\ UNCHANGED <<sp_idx, sp_created, sp_input>>
    /\ UNCHANGED mergeVars
    /\ UNCHANGED callVars

NextSplit == SplitStart \/ SplitElement \/ SplitFinish

SpecSplit == InitSplit /\ [][NextSplit]_vars

\* the list split_multi_track_gpx returns
SplitReturn == IF sp_pc = "returned" THEN sp_created ELSE <<>>

-----------------------------------------------------------------------------
(* build_trail_object called on its own, on prior records and files wider  *)
(* than those of the catalogs above.                                       *)

\* markers for a key that is not in the prior record
NoText == "absent"
NoList == <<"absent">>
NoMap == << <<"absent", "absent">> >>

\* prior name / suitable / desc maps
I18nMaps ==
    { <<>>,
      << <<"ru", "">>, <<"ro", "">>, <<"uk", "">>, <<"en", "">> >>,
      << <<"en", "Lake">>, <<"ru", "Ozero">> >>,
      << <<"de", "See">> >>,
      << <<"ru", "">>, <<"en", "Hill">>, <<"uk", "Gora">> >>,
      << <<"ru", "R">>, <<"ro", "O">>, <<"uk", "U">>, <<"en", "E">>, <<"de", "D">> >>,
      << <<"ro", " ">> >> }

\* the text fields of a prior record: one field holds any of the maps, the
\* other two are both missing or both empty
PrevTexts ==
    {[f \in I18N_FIELDS |-> IF f = own THEN m ELSE rest] :
        own \in I18N_FIELDS, m \in I18nMaps \cup {NoMap},
        rest \in {NoMap, << <<"ru", "">>, <<"en", "">> >>}}

\* the pair of a key the prior record has
Opt(key, value, missing) == IF value = missing THEN <<>> ELSE << <<key, value>> >>

\* the prior record with the given values
PrevRecord(difficulty, styles, texts) ==
    Opt("difficulty", difficulty, NoText) \o Opt("styles", styles, NoList)
    \o Opt("name", texts["name"], NoMap) \o Opt("suitable", texts["suitable"], NoMap)
    \o Opt("desc", texts["desc"], NoMap) \o << <<"note", "keep">> >>

BuildPrevs ==
    {PrevRecord(d, st, t) :
        d \in {NoText, "black", "hard", " red "},
        st \in {NoList, <<>>, <<"XC">>},
        t \in PrevTexts}

\* the files: those of GpxDocs that parse, and two more with elevation
BuildDocs ==
    <<GpxDocs[1], GpxDocs[2], GpxDocs[3], GpxDocs[4],
      \* a track climbing 155 m over 2224 m (7 %)
      [wellFormed |-> TRUE,
       elems |-> << [kind |-> "trk", name |-> "",
                     pts |-> <<Pt(47000, 100), Pt(47010, 180), Pt(47020, 255)>>] >>,
       metaName |-> "", ext |-> <<>>],
      \* a track climbing 300 m and dropping 34 m over 2224 m (12 %)
      [wellFormed |-> TRUE,
       elems |-> << [kind |-> "trk", name |-> "",
                     pts |-> <<Pt(47000, 100), Pt(47010, 400), Pt(47020, 366)>>] >>,
       metaName |-> "", ext |-> <<>>] >>

\* the calls upsert_file makes: a country code only in the unverified catalog
BuildInputs ==
    {in \in [fn : {"build_trail_object"}, prev : BuildPrevs, tid : {"a", "b_c"},
             doc : DOMAIN BuildDocs, country_id : {"", "ro"}, is_unverified : BOOLEAN] :
        in.country_id /= "" => in.is_unverified}

InitBuild ==
    /\ disk = NoCatalog
    /\ files = [s \in Slots |-> NoFile]
    /\ today = 2
    /\ is_unverified = FALSE
    /\ pc = "idle"
    /\ existing_root = NoRoot
    /\ new_root = NoRoot
    /\ rerun = FALSE
    /\ clean = FALSE
    /\ runs = 0
    /\ SplitIdle
    /\ call \in BuildInputs
    /\ ret = NotReturned

\* the call returns the record it built
CallBuild ==
    /\ call.fn = "build_trail_object"
    /\ ret = NotReturned
    /\ ret' = Returned(build_trail_object(call.prev, call.tid, "u", 47000, 28800,
                                          BuildDocs[call.doc], call.country_id,
                                          call.is_unverified))
    /\ UNCHANGED call
    /\ UNCHANGED mergeVars
    /\ UNCHANGED splitVars

NextBuild == CallBuild

SpecBuild == InitBuild /\ [][NextBuild]_vars

\* the stats build_trail_object computes for the file of the call
BuildStats ==
    LET pts == parse_gpx_points(BuildDocs[call.doc])
    IN  IF pts /= <<>> THEN calculate_elevation_stats(pts) ELSE NoStats

-----------------------------------------------------------------------------
(* determine_trail_type called on its own *)

\* the children of an <extensions> element, under the names the file gives
\* them; "" is a child that is not there
TypeTags ==
    {Opt("mtb:scale", sc, "") \o Opt("highway", hw, "") :
        sc \in {"", "0", "1", "2", "3", "4", "5", "S2"}, hw \in {"", "path", "track"}}

\* elevation profiles of a three-point track 20 steps long: none, flat, climbs
\* of 2, 7, 12 and 18 %, drops of 90 and 120 m, a climb and a drop of over 200 m
TypeProfiles ==
    { <<None, None, None>>, <<100, 100, 100>>, <<100, 120, 150>>, <<100, 180, 255>>,
      <<100, 400, 366>>, <<100, 300, 500>>, <<290, 250, 200>>, <<320, 250, 200>>,
      <<100, 320, 70>> }

TypeDoc(readable, tags, profile) ==
    [wellFormed |-> readable,
     elems |-> << [kind |-> "trk", name |-> "",
                   pts |-> <<Pt(47000, profile[1]), Pt(47010, profile[2]),
                             Pt(47020, profile[3])>>] >>,
     metaName |-> "", ext |-> tags]

TypeInputs ==
    [fn : {"determine_trail_type"}, readable : BOOLEAN, tags : TypeTags,
     profile : TypeProfiles, difficulty : Range(DIFFICULTIES)]

InitType ==
    /\ disk = NoCatalog
    /\ files = [s \in Slots |-> NoFile]
    /\ today = 2
    /\ is_unverified = TRUE
    /\ pc = "idle"
    /\ existing_root = NoRoot
    /\ new_root = NoRoot
    /\ rerun = FALSE
    /\ clean = FALSE
    /\ runs = 0
    /\ SplitIdle
    /\ call \in TypeInputs
    /\ ret = NotReturned

\* the stats build_trail_object hands over with the file
TypeStats ==
    calculate_elevation_stats(
        parse_gpx_points(TypeDoc(TRUE, call.tags, call.profile)))

CallType ==
    /\ call.fn = "determine_trail_type"
    /\ ret = NotReturned
    /\ ret' = Returned(determine_trail_type(
                           TypeDoc(call.readable, call.tags, call.profile),
                           TypeStats, call.difficulty))
    /\ UNCHANGED call
    /\ UNCHANGED mergeVars
    /\ UNCHANGED splitVars

NextType == CallType

SpecType == InitType /\ [][NextType]_vars

-----------------------------------------------------------------------------
(* calculate_elevation_stats as a function of the point list *)

\* latitudes one, two, three and five steps apart
LengthLats == {47000, 47001, 47002, 47003, 47005}

\* what a point may carry as its elevation
LengthEles == {None, 100, 150}

\* the lists of two to MaxPoints points on one meridian, each point with or
\* without an elevation
LengthInputs ==
    { [fn |-> "calculate_elevation_stats",
       points |-> [i \in 1..n |-> Pt(lats[i], eles[i])]] :
        n \in 2..MaxPoints,
        lats \in {q \in SeqsUpTo(LengthLats, MaxPoints) : Len(q) = MaxPoints},
        eles \in {q \in SeqsUpTo(LengthEles, MaxPoints) : Len(q) = MaxPoints} }

InitLength ==
    /\ disk = NoCatalog
    /\ files = [s \in Slots |-> NoFile]
    /\ today = 2
    /\ is_unverified = TRUE
    /\ pc = "idle"
    /\ existing_root = NoRoot
    /\ new_root = NoRoot
    /\ rerun = FALSE
    /\ clean = FALSE
    /\ runs = 0
    /\ SplitIdle
    /\ call \in LengthInputs
    /\ ret = NotReturned

CallStats ==
    /\ call.fn = "calculate_elevation_stats"
    /\ ret = NotReturned
    /\ ret' = Returned(calculate_elevation_stats(call.points))
    /\ UNCHANGED call
    /\ UNCHANGED mergeVars
    /\ UNCHANGED splitVars

NextLength == CallStats

SpecLength == InitLength /\ [][NextLength]_vars

-----------------------------------------------------------------------------
(* What a completed run read and wrote *)

\* the trails list of the root the run wrote
Written == At(new_root.kv, "trails")
\* the trails list the run took from the existing catalog
PriorTrails == IF IsCatalog(existing_root) THEN At(existing_root.kv, "trails") ELSE <<>>
\* the files the run discovered
Discovered == all_gpx_files(files, is_unverified)
\* the prior record the run merged the record of tid against ({} for a new id)
PrevOf(tid) ==
    IF tid \in Range(OrderOf(PriorTrails)) THEN ExistingById(PriorTrails, tid) ELSE <<>>
\* a trails list as json.dumps(sort_keys=True) shows it
DumpsTrails(l) == [i \in DOMAIN l |-> DumpsRecord(l[i])]
\* the stats of the file the run used for tid
StatsOf(tid) ==
    calculate_elevation_stats(parse_gpx_points(DocAt(files, FileById(Discovered, tid))))

-----------------------------------------------------------------------------
\* C1: a run that follows a completed run, with no track-log file changed in
\* between (the date may have changed), writes exactly the catalog it read:
\* same updatedAt, same records in the same order, same keys in the same order.
SecondRunIdentical ==
    (pc = "done" /\ rerun) => (new_root = existing_root /\ disk = JsonFile(existing_root))

\* a second run on a later day than the one stamped, over a non-empty catalog
SecondRunWitness ==
    /\ pc = "done"
    /\ rerun
    /\ Len(Written) > 0
    /\ At(new_root.kv, "updatedAt") /= today_yyyy_mm_dd
    /\ disk = JsonFile(existing_root)

\* C2: every written record whose prior record has a difficulty that is one of
\* green, blue, red, black carries exactly that difficulty, in either mode and
\* whatever the file holds; as an invariant this covers every run of a sequence.
ManualDifficultyKept ==
    pc = "done" =>
        \A i \in DOMAIN Written :
            LET prev == PrevOf(At(Written[i], "id"))
            IN  Get(prev, "difficulty", "") \in Range(DIFFICULTIES)
                    => At(Written[i], "difficulty") = At(prev, "difficulty")

\* a later run in unverified mode keeps "black" on a record whose file has
\* elevation data that would compute another difficulty
ManualDifficultyWitness ==
    /\ pc = "done"
    /\ runs >= 2
    /\ is_unverified
    /\ \E i \in DOMAIN Written :
          LET tid == At(Written[i], "id")
          IN  /\ Get(PrevOf(tid), "difficulty", "") = "black"
              /\ StatsOf(tid).has_elevation
              /\ determine_difficulty_from_elevation(StatsOf(tid), tid) /= "black"
              /\ At(Written[i], "difficulty") = "black"

\* C3 as stated: whenever the written trails list is structurally equal to the
\* existing catalog's, the written updatedAt is the existing catalog's updatedAt,
\* for every existing catalog of the object shape.
TimestampStable ==
    (/\ pc = "done"
     /\ IsCatalog(existing_root)
     /\ Has(existing_root.kv, "updatedAt")
     /\ DumpsTrails(Written) = DumpsTrails(PriorTrails))
        => At(new_root.kv, "updatedAt") = At(existing_root.kv, "updatedAt")

\* C4: whenever the written trails list or the version differs structurally
\* from the existing document's, the written updatedAt is the current date.
VersionDiffers ==
    \/ ~Has(existing_root.kv, "version")
    \/ At(existing_root.kv, "version") /= At(new_root.kv, "version")
TrailsDiffer ==
    DumpsTrails(Written) /=
        DumpsTrails(IF existing_root.t = "array" THEN existing_root.items ELSE PriorTrails)
StampedOnChange ==
    (pc = "done" /\ (TrailsDiffer \/ VersionDiffers))
        => At(new_root.kv, "updatedAt") = today_yyyy_mm_dd

\* a catalog of the documented shape and an older date, whose records keep their
\* ids and order while a field of one of them changes
StampedOnChangeWitness ==
    /\ pc = "done"
    /\ IsCatalog(existing_root)
    /\ ~VersionDiffers
    /\ Get(existing_root.kv, "updatedAt", "") = DateStr(1)
    /\ Len(Written) > 0
    /\ [i \in DOMAIN Written |-> At(Written[i], "id")] = OrderOf(PriorTrails)
    /\ Len(PriorTrails) = Len(Written)
    /\ TrailsDiffer
    /\ At(new_root.kv, "updatedAt") = today_yyyy_mm_dd

\* C5: the written trails list has a record with id X exactly when a discovered
\* file has base name X.
RecordsTrackFiles ==
    pc = "done" => {At(Written[i], "id") : i \in DOMAIN Written} = FileIds(Discovered)

\* a run that drops a record whose file is gone and adds one for a new file
RecordsTrackFilesWitness ==
    /\ pc = "done"
    /\ \E tid \in Range(OrderOf(PriorTrails)) : tid \notin FileIds(Discovered)
    /\ \E tid \in FileIds(Discovered) :
          /\ tid \notin Range(OrderOf(PriorTrails))
          /\ \E i \in DOMAIN Written : At(Written[i], "id") = tid

\* C8 as stated: an existing document that is a bare array has its elements
\* reconciled as the prior records, and the object shape is written.
LegacyArrayReconciled ==
    (pc = "done" /\ existing_root.t = "array")
        => /\ new_root.t = "object"
           /\ Written = NewTrails(existing_root.items, files, is_unverified)

\* C9 as stated: no two records of a written catalog have the same id.
IdsUnique ==
    pc = "done" =>
        \A i, j \in DOMAIN Written :
            At(Written[i], "id") = At(Written[j], "id") => i = j

\* the keys build_trail_object owns
SchemaKeys ==
    {"id", "cityId", "styles", "name", "suitable", "difficulty", "desc", "gpxUrl",
     "startLat", "startLon", "countryId"}

\* C10: every key of the prior record outside the schema's keys is in the written
\* record with the same value; as an invariant this covers every run of a sequence.
ExtraKeysKept ==
    pc = "done" =>
        \A i \in DOMAIN Written :
            LET prev == PrevOf(At(Written[i], "id"))
            IN  \A k \in Keys(prev) \ SchemaKeys :
                    Has(Written[i], k) /\ At(Written[i], k) = At(prev, k)

\* a later run still carries the operator's "note" next to a recomputed start point
ExtraKeysWitness ==
    /\ pc = "done"
    /\ runs >= 2
    /\ \E i \in DOMAIN Written :
          LET prev == PrevOf(At(Written[i], "id"))
          IN  /\ Get(prev, "note", "") = "keep"
              /\ Get(Written[i], "note", "") = "keep"
              /\ At(Written[i], "startLat") /= Get(prev, "startLat", None)

-----------------------------------------------------------------------------
\* the catalog file as it was when the run loaded it
DiskAtLoad == IF existing_root.t = "none" THEN NoCatalog ELSE JsonFile(existing_root)

\* C7 as stated: wherever the process stops, the catalog file is the complete
\* previous catalog or the complete new one.
CatalogNeverTorn ==
    pc = "crashed" => disk \in {DiskAtLoad, JsonFile(new_root)}

-----------------------------------------------------------------------------
\* the elements C6 says get a file: a name that is not blank, at least 10
\* points with coordinates, 900 m <= length <= 50,000 m
Qualifies(e) ==
    LET located == SelectSeq(e.pts, LAMBDA p : p.lat /= None /\ p.lon /= None)
    IN  /\ e.name \notin {"", " "}
        /\ Len(located) >= 10
        /\ SumDistance(located) >= 900
        /\ SumDistance(located) <= 50000

\* the outcome C6 describes, for the file and directory the splitter was given
SplitOutcome ==
    LET wanted == SelectSeq(sp_input.elems, Qualifies)
    IN  /\ Len(sp_created) = Len(wanted)
        /\ \A i, j \in DOMAIN sp_created : sp_created[i] = sp_created[j] => i = j
        /\ \A i \in DOMAIN sp_created : sp_created[i] \notin sp_input.dir0
        /\ sp_dir = (sp_input.dir0 \ {sp_input.stem}) \cup Range(sp_created)
        /\ sp_input.stem \notin sp_dir

\* split_multi_track_gpx has returned on a file of two or more elements
SplitOver == sp_pc \in {"returned", "raised"} /\ Len(sp_input.elems) >= 2

-----------------------------------------------------------------------------
\* build_trail_object has returned a record
Built == call /= <<>> /\ call.fn = "build_trail_object" /\ ~ret.pending

\* the prior map of a text field has at least one non-empty value
Authored(prev, f) == Has(prev, f) /\ \E i \in DOMAIN At(prev, f) : At(prev, f)[i][2] /= ""

\* the value C11 gives a language in the new map
TextExpected(m, lang) ==
    LET filled == {i \in DOMAIN m : m[i][2] /= ""}
        first == CHOOSE i \in filled : \A j \in filled : i <= j
    IN  IF \E i \in filled : m[i][1] = lang
        THEN m[CHOOSE i \in filled : m[i][1] = lang][2]
        ELSE IF \E i \in filled : m[i][1] = "ru"
        THEN m[CHOOSE i \in filled : m[i][1] = "ru"][2]
        ELSE m[first][2]

\* C11: for each of name, suitable and desc whose prior map has a non-empty
\* value, every configured language with a non-empty prior value keeps it, every
\* other configured language gets the prior "ru" value if that is non-empty and
\* else the first non-empty prior value; so nothing generated or translated is
\* in the new map.
ManualTextsKept ==
    Built =>
        \A f \in I18N_FIELDS :
            Authored(call.prev, f) =>
                \A i \in DOMAIN LANGS :
                    Get(At(ret.value, f), LANGS[i], "none")
                        = TextExpected(At(call.prev, f), LANGS[i])

\* an unverified record whose file has a name of its own keeps the operator's
\* name and fills "ro" from "ru", although "en" comes first in the prior map
ManualTextsWitness ==
    /\ Built
    /\ call.is_unverified
    /\ get_gpx_track_name(BuildDocs[call.doc]) /= ""
    /\ Has(call.prev, "name")
    /\ At(call.prev, "name") = << <<"en", "Lake">>, <<"ru", "Ozero">> >>
    /\ At(At(ret.value, "name"), "ro") = "Ozero"
    /\ At(At(ret.value, "name"), "en") = "Lake"

\* C12: in every record build_trail_object returns, each of name, suitable and
\* desc has exactly the keys ru, ro, uk, en, once each.
I18nComplete ==
    Built =>
        \A f \in I18N_FIELDS :
            /\ Has(ret.value, f)
            /\ Len(At(ret.value, f)) = Len(LANGS)
            /\ {At(ret.value, f)[i][1] : i \in DOMAIN At(ret.value, f)} = Range(LANGS)

\* a prior name under a language that is not configured, prior suitable and
\* desc maps with two empty keys: all three maps come out complete
I18nCompleteWitness ==
    /\ Built
    /\ call.is_unverified
    /\ Has(call.prev, "name")
    /\ At(call.prev, "name") = << <<"de", "See">> >>
    /\ Has(call.prev, "suitable")
    /\ Has(call.prev, "desc")
    /\ Keys(At(ret.value, "name")) = Range(LANGS)
    /\ At(At(ret.value, "suitable"), "uk") /= ""

-----------------------------------------------------------------------------
\* the ids of a list of records, in list order, records without id left out
IdsOf(l) ==
    LET withId == SelectSeq(l, LAMBDA t : Has(t, "id") /\ At(t, "id") /= "")
    IN  [i \in DOMAIN withId |-> At(withId[i], "id")]

\* a comes before b in sorted order
Precedes(a, b) ==
    \E i, j \in DOMAIN StemOrder : i < j /\ StemOrder[i] = a /\ StemOrder[j] = b

\* C13: the written list is the prior catalog's ids that still have a file, in
\* their prior order, followed by the ids only the file scan has, ascending.
RecordOrder ==
    pc = "done" =>
        LET ids == IdsOf(Written)
            prior == IdsOf(PriorTrails)
            backed == FileIds(Discovered)
            kept == SelectSeq(prior, LAMBDA tid : tid \in backed)
            fresh == SubSeq(ids, Len(kept) + 1, Len(ids))
        IN  /\ Len(ids) = Len(Written)
            /\ Len(ids) >= Len(kept)
            /\ SubSeq(ids, 1, Len(kept)) = kept
            /\ Range(fresh) = backed \ Range(prior)
            /\ \A i, j \in DOMAIN fresh : i < j => Precedes(fresh[i], fresh[j])

\* a catalog that listed b_c only, with files for a and b_c: b_c stays first
\* and the new id a follows it
RecordOrderWitness ==
    /\ pc = "done"
    /\ IdsOf(PriorTrails) = <<"b_c">>
    /\ IdsOf(Written) = <<"b_c", "a">>

-----------------------------------------------------------------------------
\* a file that backs an id is not XML
UnparsableFile ==
    \E i \in DOMAIN Discovered :
        /\ ~DocAt(files, Discovered[i]).wellFormed
        /\ \A j \in (i + 1)..Len(Discovered) : Discovered[j][2] /= Discovered[i][2]

\* C14: in a call of upsert_file the catalog file changes only inside the one
\* save_root the call makes, which starts once per call and after a record has
\* been built for every discovered id; a call that meets a file that does not
\* parse ends with an error and leaves the catalog file as it was.
SingleWriteAfterBuild ==
    [][ /\ (disk' /= disk) =>
            /\ pc \in {"save", "open", "dumped"}
            /\ new_root /= NoRoot
            /\ Range(IdsOf(Written)) = FileIds(Discovered)
        /\ (pc' = "open") => (pc = "save")
        /\ (pc' = "save") => (runs' = runs + 1 /\ disk' = disk)
        /\ (runs' = runs + 1 /\ UnparsableFile) => (pc' = "failed" /\ disk' = disk)
      ]_vars

\* a call over a catalog with records has met a file that does not parse and
\* has ended with an error, the catalog still on disk
SingleWriteWitness ==
    /\ pc = "failed"
    /\ runs >= 1
    /\ UnparsableFile
    /\ disk.kind = "json"
    /\ IsCatalog(disk.root)
    /\ Len(At(disk.root.kv, "trails")) > 0

-----------------------------------------------------------------------------
\* the prior record has no difficulty that is one of the four values
NoValidDifficulty(prev) == Strip(Get(prev, "difficulty", "")) \notin Range(DIFFICULTIES)

\* the bucket of the average gradient |gain - loss| / length, in per cent
Bucket(stats) ==
    LET net == Abs(stats.elevation_gain - stats.elevation_loss) * 100
        len == stats.total_distance
    IN  IF len = 0 \/ net < 5 * len THEN "green"
        ELSE IF net < 10 * len THEN "blue"
        ELSE IF net < 15 * len THEN "red"
        ELSE "black"

\* C15 as stated: without a prior valid difficulty the record's difficulty is
\* the gradient bucket whenever the file has elevation data, in either mode,
\* and the hash-derived value of the id otherwise.
ComputedDifficultyAnyMode ==
    (Built /\ NoValidDifficulty(call.prev)) =>
        At(ret.value, "difficulty")
            = IF BuildStats.has_elevation THEN Bucket(BuildStats)
              ELSE stable_random_difficulty(call.tid)

\* C15, amended: without a prior valid difficulty the record's difficulty is
\* the gradient bucket when the catalog is the unverified one and the file has
\* elevation data, and the hash-derived value of the id in every other case.
ComputedDifficulty ==
    (Built /\ NoValidDifficulty(call.prev)) =>
        At(ret.value, "difficulty")
            = IF call.is_unverified /\ BuildStats.has_elevation THEN Bucket(BuildStats)
              ELSE stable_random_difficulty(call.tid)

\* an unverified record with an invalid prior difficulty and a 12 % file is
\* red, which is not what the hash of its id gives
ComputedDifficultyWitness ==
    /\ Built
    /\ call.is_unverified
    /\ Get(call.prev, "difficulty", "") = "hard"
    /\ BuildStats.has_elevation
    /\ At(ret.value, "difficulty") = "red"
    /\ stable_random_difficulty(call.tid) /= "red"

\* the prior record has a non-empty styles list
HasStyles(prev) == Has(prev, "styles") /\ Len(At(prev, "styles")) > 0

\* downhill set or generic set, from loss and gain
StylesFromElevation(stats) ==
    IF stats.elevation_loss > 2 * stats.elevation_gain /\ stats.elevation_loss > 50
    THEN <<"MTB", "DH">> ELSE <<"MTB">>

\* C16 as stated: the styles are the prior non-empty list, else the set the
\* elevation gives, else the single generic tag; never an empty list.
StylesNeverEmpty ==
    Built =>
        /\ At(ret.value, "styles")
               = IF HasStyles(call.prev) THEN At(call.prev, "styles")
                 ELSE IF BuildStats.has_elevation THEN StylesFromElevation(BuildStats)
                 ELSE <<"MTB">>
        /\ At(ret.value, "styles") /= <<>>

\* C16, amended: the styles are the prior non-empty list; else, in the
\* unverified catalog and with elevation data, the set the elevation gives;
\* else the empty list.
StylesComputed ==
    Built =>
        At(ret.value, "styles")
            = IF HasStyles(call.prev) THEN At(call.prev, "styles")
              ELSE IF call.is_unverified /\ BuildStats.has_elevation
              THEN StylesFromElevation(BuildStats)
              ELSE <<>>

\* an unverified record without prior styles whose file drops 400 m gets the
\* downhill set
StylesComputedWitness ==
    /\ Built
    /\ call.is_unverified
    /\ ~HasStyles(call.prev)
    /\ BuildStats.has_elevation
    /\ BuildStats.elevation_loss = 400
    /\ At(ret.value, "styles") = <<"MTB", "DH">>

-----------------------------------------------------------------------------
\* C17 as stated: determine_trail_type does not return "xc" for a red or black
\* difficulty, whatever the tags, the elevation statistics and the file.
NeverXcWhenHard ==
    (call /= <<>> /\ call.fn = "determine_trail_type" /\ ~ret.pending
        /\ call.difficulty \in {"red", "black"})
    => ret.value /= "xc"

-----------------------------------------------------------------------------
\* C19: on a file of no or one track/route element split_multi_track_gpx
\* creates no file, leaves the original where it is and as it is, and returns
\* an empty list.
SplitterNoOp ==
    (sp_pc \in {"single", "returned", "raised", "loop"} /\ Len(sp_input.elems) <= 1) =>
        /\ sp_pc /= "loop"
        /\ sp_created = <<>>
        /\ SplitReturn = <<>>
        /\ sp_dir = sp_input.dir0
        /\ sp_input.stem \in sp_dir

\* the splitter has returned on a file whose only element is a named track
\* that passes the quality gate
SplitterNoOpWitness ==
    /\ sp_pc = "single"
    /\ Len(sp_input.elems) = 1
    /\ Qualifies(sp_input.elems[1])
    /\ sp_dir = sp_input.dir0

-----------------------------------------------------------------------------
\* calculate_elevation_stats has returned on a list of at least two points
Measured ==
    /\ call /= <<>>
    /\ call.fn = "calculate_elevation_stats"
    /\ ~ret.pending
    /\ Len(call.points) >= 2

\* the computed distance between the first and the last point of the list
DirectDistance == Haversine(call.points[1], call.points[Len(call.points)])

-----------------------------------------------------------------------------
\* sanitized_name_1, sanitized_name_2, ...
Suffixed(sanitized_name, counter) == sanitized_name \o "_" \o ToString(counter)

\* C21: whenever split_multi_track_gpx writes a file, the path it writes did
\* not exist in the directory when it was chosen and was not written before
\* in the call; it is the sanitized name when that is free, and otherwise the
\* sanitized name with the first of _1, _2, ... that is free; the write adds
\* that one file and leaves every file the directory held in place.
NeverOverwrites ==
    [][ sp_created' /= sp_created =>
          LET new_path == sp_created'[Len(sp_created')]
              e == SplitOrder(sp_input)[sp_idx]
              sanitized_name == sanitize_filename(Strip(e.name))
          IN  /\ sp_created' = Append(sp_created, new_path)
              /\ new_path \notin sp_dir
              /\ new_path \notin Range(sp_created)
              /\ sp_dir' = sp_dir \cup {new_path}
              /\ sp_input.dir0 \subseteq sp_dir'
              /\ IF sanitized_name \notin sp_dir
                 THEN new_path = sanitized_name
                 ELSE \E k \in 1..Cardinality(sp_dir) :
                          /\ new_path = Suffixed(sanitized_name, k)
                          /\ \A j \in 1..(k - 1) :
                                 Suffixed(sanitized_name, j) \in sp_dir
      ]_vars

\* two accepted elements of the same sanitized name were written in a
\* directory that already held that name and the name with _1: they went to
\* the names with _2 and _3, next to the two files that were there
NeverOverwritesWitness ==
    /\ sp_created = <<"ridge_2", "ridge_3">>
    /\ {"ridge", "ridge_1"} \subseteq sp_input.dir0
    /\ {"ridge", "ridge_1", "ridge_2", "ridge_3"} \subseteq sp_dir

-----------------------------------------------------------------------------
\* C22: the original file is gone only when split_multi_track_gpx has gone
\* through every track and route element and has written a file for every
\* accepted one; when a step has raised the original is still in the
\* directory; and the files written for earlier elements are there in either
\* case.
DeleteOnlyAfterSuccess ==
    /\ Range(sp_created) \subseteq sp_dir
    /\ sp_input.stem \notin sp_dir =>
           /\ sp_pc = "returned"
           /\ sp_idx > Len(SplitOrder(sp_input))
           /\ Len(sp_created) = Len(SelectSeq(sp_input.elems, Qualifies))
    /\ sp_pc = "raised" => sp_input.stem \in sp_dir

\* a write raised after a file had been written for an earlier element: the
\* original and that file are both in the directory
DeleteOnlyAfterSuccessWitness ==
    /\ sp_pc = "raised"
    /\ Len(sp_created) >= 1
    /\ sp_input.stem \in sp_dir
    /\ sp_created[1] \in sp_dir

-----------------------------------------------------------------------------
RECURSIVE SumOver(_, _)
\* the sum of f over the finite set S of its arguments
SumOver(S, f) ==
    IF S = {} THEN 0
    ELSE LET x == CHOOSE y \in S : TRUE IN f[x] + SumOver(S \ {x}, f)

\* the elevation deltas of the measured list between neighbours of the input
\* sequence, 0 where either of the two carries no elevation
AdjacentDeltas ==
    [i \in 2..Len(call.points) |->
        IF call.points[i].ele = None \/ call.points[i - 1].ele = None THEN 0
        ELSE call.points[i].ele - call.points[i - 1].ele]

\* the elevation deltas of the measured list between each point that carries
\* an elevation and the last one before it that does, however many points
\* without elevation lie between the two
ChainDeltas ==
    [i \in 2..Len(call.points) |->
        LET before == {j \in 1..(i - 1) : call.points[j].ele /= None}
        IN  IF call.points[i].ele = None \/ before = {} THEN 0
            ELSE call.points[i].ele
                 - call.points[CHOOSE j \in before : \A k \in before : k <= j].ele]

\* ascent, descent and distance of the returned stats against the deltas
Accumulates(deltas) ==
    /\ ret.value.elevation_gain =
           SumOver(DOMAIN deltas, [i \in DOMAIN deltas |-> IF deltas[i] > 0 THEN deltas[i] ELSE 0])
    /\ ret.value.elevation_loss =
           SumOver(DOMAIN deltas, [i \in DOMAIN deltas |-> IF deltas[i] < 0 THEN 0 - deltas[i] ELSE 0])
    /\ ret.value.total_distance =
           SumOver(DOMAIN deltas, [i \in DOMAIN deltas |->
                                      Haversine(call.points[i - 1], call.points[i])])

\* C23 as stated: ascent is the sum of the positive elevation deltas and
\* descent the sum of the magnitudes of the negative ones over the pairs of
\* neighbours of the input sequence that both carry an elevation, a pair
\* separated by a point without elevation contributing nothing; distance is
\* summed over all neighbours.
AscentOverNeighbours == Measured => Accumulates(AdjacentDeltas)

\* C23, amended: ascent and descent are summed over the pairs that are
\* neighbours among the points carrying an elevation, so two such points
\* separated only by points without elevation contribute their delta;
\* distance is summed over all neighbours of the input sequence.
AscentOverChain == Measured => Accumulates(ChainDeltas)

\* a measured list of an elevation, a point without one and a higher
\* elevation: the climb across the gap is counted
AscentOverChainWitness ==
    /\ Measured
    /\ Len(call.points) = 3
    /\ call.points[1].ele = 100
    /\ call.points[2].ele = None
    /\ call.points[3].ele = 150
    /\ ret.value.elevation_gain = 50

====
